---- MODULE Spec2Model ----
(***************************************************************************)
(* Model of the Prism "after-tokenize" hook that marks ESLint diagnostics  *)
(* in the code blocks of the documentation.                                *)
(*                                                                         *)
(* A JavaScript string is a sequence of one-character strings.  A token    *)
(* (string | Prism.Token) is a record:                                     *)
(*   str     - typeof token === "string"                                   *)
(*   type    - Prism.Token#type ("" for a string)                          *)
(*   flat    - typeof token.content === "string" (TRUE for a string)       *)
(*   text    - the string itself, or the string content of a Prism.Token   *)
(*   content - the array content of a Prism.Token (<<>> when flat)         *)
(*   alias   - Prism.Token#alias                                           *)
(*   length  - the string's length, or Prism.Token#length                  *)
(* Ranges are the code's [start, end] pairs; range[0] and range[1] of the  *)
(* code are range[1] and range[2] here.                                    *)
(***************************************************************************)
EXTENDS Integers, Sequences, FiniteSets, TLC

VARIABLES
    contentMustBeMarked,    \* module-level: content waiting to be marked
    contentParserOptions,   \* module-level: parser options of that content
    env,                    \* Prism's hook environment: [code, tokens]
    pc,                     \* "idle", "hook" while Prism runs after-tokenize, or
                            \* "loop" in the range loop taken on its own
    messages,               \* what linter.verify returned in the last hook run
    tokenized,              \* env.tokens as the tokenizer produced them
    registered,             \* the last addContentMustBeMarked call: its content, and
                            \* whether the hook has since run on that content (used),
                            \* more than once (again), or on another code (skipped),
                            \* and whether the linter reported a fatal diagnostic
                            \* in the run that used it (fatal)
    applied,                \* the {range, message} pairs applied so far
    made,                   \* eslint-marked tokens built by the last application
    popped                  \* elements removed by content.pop() in the last application

vars == <<contentMustBeMarked, contentParserOptions, env, pc, messages,
          tokenized, registered, applied, made, popped>>

----------------------------------------------------------------------------
(* Bounds of the model *)

MaxLen == 3
MaxDepth == 1
MaxEmpty == 1
MaxRanges == 2
MaxMessages == 2

----------------------------------------------------------------------------
(* JavaScript values *)

\* undefined, where a string (a sequence of characters) is expected
Undefined == <<"undefined">>

Min(a, b) == IF a < b THEN a ELSE b
Max(a, b) == IF a < b THEN b ELSE a

\* String.prototype.slice(from, to)
slice(s, from, to) ==
    LET len == Len(s)
        f == IF from < 0 THEN Max(len + from, 0) ELSE Min(from, len)
        t == IF to < 0 THEN Max(len + to, 0) ELSE Min(to, len)
    IN  IF f >= t THEN <<>> ELSE SubSeq(s, f + 1, t)

\* a string token
String(s) ==
    [str |-> TRUE, type |-> "", flat |-> TRUE, text |-> s, content |-> <<>>,
     alias |-> <<>>, length |-> Len(s)]

\* new Prism.Token(type, content, alias, matchedStr) with a string content;
\* length is (matchedStr || "").length
TokenS(type, text, alias, length) ==
    [str |-> FALSE, type |-> type, flat |-> TRUE, text |-> text, content |-> <<>>,
     alias |-> alias, length |-> length]

\* new Prism.Token(type, content, alias, matchedStr) with an array content
TokenA(type, content, alias, length) ==
    [str |-> FALSE, type |-> type, flat |-> FALSE, text |-> <<>>, content |-> content,
     alias |-> alias, length |-> length]

\* the null of splitToken's before / after
Null ==
    [str |-> FALSE, type |-> "null", flat |-> TRUE, text |-> <<>>, content |-> <<>>,
     alias |-> <<>>, length |-> 0]

\* JavaScript truthiness of a token-or-null: null and "" are falsy
Truthy(token) ==
    /\ token # Null
    /\ ~(token.str /\ token.text = <<>>)

----------------------------------------------------------------------------
(* getTokenContent *)

RECURSIVE getTokenContent(_)
RECURSIVE joinContent(_)

joinContent(tokens) ==
    IF tokens = <<>> THEN <<>>
    ELSE getTokenContent(Head(tokens)) \o joinContent(Tail(tokens))

getTokenContent(token) ==
    IF token.str THEN token.text
    ELSE IF token.type = "eslint-message" THEN <<>>
    ELSE IF token.flat THEN token.text
    ELSE joinContent(token.content)

----------------------------------------------------------------------------
(* splitToken and convertMarked *)

\* buildToken of splitToken: a string stays a string, a token keeps type and
\* alias; no matchedStr is passed, so the new token's length is 0
buildToken(token, newContent) ==
    IF token.str THEN String(newContent)
    ELSE TokenS(token.type, newContent, token.alias, 0)

\* markedAlias without the test of the range's length
markedAlias_AnyLength(mark, range) ==
    IF mark = <<"\n">> THEN <<"eslint-marked-line-feed">> ELSE <<>>

\* the alias of the eslint-marked token
markedAlias(mark, range) ==
    IF mark = <<"\n">> /\ range[1] + 1 = range[2]
    THEN <<"eslint-marked-line-feed">>
    ELSE <<>>

\* the test that keeps the text after range[1]
hasAfter(token, range, tokenStart) ==
    range[2] - tokenStart < token.length

\* result.marked.content.pop()
popContent(content) ==
    IF content = <<>> THEN <<>> ELSE SubSeq(content, 1, Len(content) - 1)

\* whether the while loop at line 190 goes on with this token
\* (buffer.shift() of "" is falsy and ends the loop)
shiftTruthy(token) == Truthy(token)

\* the pass-through test of the walk
passThrough(content, end, range) ==
    content = <<>> \/ end <= range[1]

RECURSIVE walk(_, _, _, _)
RECURSIVE merge(_, _, _, _, _)
RECURSIVE splitToken(_, _, _, _)

\* splitToken({ token, range, message, tokenStart }): before, marked, after,
\* with the eslint-marked tokens it built and the elements it popped
splitToken(token, range, message, tokenStart) ==
    IF ~token.str /\ ~token.flat
    THEN LET r == walk(token.content, range, message, tokenStart)
         IN  [before |-> Null,
              marked |-> [token EXCEPT !.content = r.out],
              after |-> Null,
              made |-> r.made,
              popped |-> r.popped]
    ELSE LET content == getTokenContent(token)
             before == IF tokenStart < range[1]
                       THEN buildToken(token, slice(content, 0, range[1] - tokenStart))
                       ELSE Null
             mark == slice(content,
                           IF Truthy(before) THEN range[1] - tokenStart ELSE 0,
                           range[2] - tokenStart)
             marked == TokenA("eslint-marked",
                              <<buildToken(token, mark),
                                TokenS("eslint-message", message, <<"alert">>, 0)>>,
                              markedAlias(mark, range), 0)
             after == IF hasAfter(token, range, tokenStart)
                      THEN buildToken(token,
                                      slice(content, range[2] - tokenStart, Len(content)))
                      ELSE Null
         IN  [before |-> before, marked |-> marked, after |-> after,
              made |-> <<marked>>, popped |-> <<>>]

\* the inner while loop of convertMarked (lines 208-220): result is the split
\* of the entry token, buffer the tokens not yet shifted
merge(result, buffer, nextTokenStartIndex, range, message) ==
    IF nextTokenStartIndex < range[2] /\ buffer # <<>>
    THEN LET nextToken == Head(buffer)
             next == splitToken(nextToken, range, message, nextTokenStartIndex)
             \* splitToken assigns nextToken.content when it is an array
             nextTokenNow == IF ~nextToken.str /\ ~nextToken.flat
                             THEN next.marked ELSE nextToken
             old == result.marked.content
             merged == [result EXCEPT
                          !.marked.content = popContent(old) \o next.marked.content,
                          !.after = IF Truthy(next.after) THEN next.after ELSE @,
                          !.made = @ \o next.made,
                          !.popped = @ \o next.popped
                                       \o (IF old = <<>> THEN <<>>
                                           ELSE <<old[Len(old)]>>)]
         IN  merge(merged, Tail(buffer),
                   nextTokenStartIndex + Len(getTokenContent(nextTokenNow)),
                   range, message)
    ELSE [result |-> result, buffer |-> buffer]

\* the while loop of convertMarked (lines 190-229) with `buffer` left and the
\* cursor at `start`: what it yields from here on
walk(buffer, range, message, start) ==
    IF buffer = <<>> THEN [out |-> <<>>, made |-> <<>>, popped |-> <<>>]
    ELSE LET token == Head(buffer)
             content == getTokenContent(token)
             end == start + Len(content)
         IN  IF ~shiftTruthy(token)
             THEN [out |-> <<>>, made |-> <<>>, popped |-> <<>>]
             ELSE IF passThrough(content, end, range)
             THEN LET r == walk(Tail(buffer), range, message, end)
                  IN  [r EXCEPT !.out = <<token>> \o @]
             ELSE LET m == merge(splitToken(token, range, message, start),
                                 Tail(buffer), end, range, message)
                      result == m.result
                  IN  [out |-> (IF Truthy(result.before) THEN <<result.before>> ELSE <<>>)
                               \o <<result.marked>>
                               \o (IF Truthy(result.after) THEN <<result.after>> ELSE <<>>)
                               \o m.buffer,
                       made |-> result.made,
                       popped |-> result.popped]

\* [...convertMarked({ tokens, range, message, tokenStart })]
convertMarked(tokens, range, message, tokenStart) ==
    walk(tokens, range, message, tokenStart).out

----------------------------------------------------------------------------
(* What the tokenizer can hand to the hook *)

LineFeed == "\n"
CarriageReturn == "\r"
Letters == <<"a", "b", "c", "d", "e", "f">>

\* the source texts: letters, with a line break in the second place or not
SourceTexts ==
    LET plain(n) == SubSeq(Letters, 1, n)
    IN  {plain(0), plain(MaxLen)}
        \cup {[plain(MaxLen) EXCEPT ![2] = c] : c \in {LineFeed, CarriageReturn}}

RECURSIVE countEmpty(_)
countEmpty(tokens) ==
    IF tokens = <<>> THEN 0
    ELSE LET t == Head(tokens)
         IN  (IF t.str /\ t.text = <<>> THEN 1 ELSE 0)
             + (IF ~t.flat THEN countEmpty(t.content) ELSE 0)
             + countEmpty(Tail(tokens))

RECURSIVE tokenStreams(_, _, _)
\* Prism token streams over `text`: strings, tokens with a string content and
\* (to `depth` levels) tokens with a nested stream, every token's length being
\* the length of the text it matched; `empties` bounds the empty strings
tokenStreams(text, depth, empties) ==
    LET tokensOver(seg) ==
            {String(seg), TokenS("keyword", seg, <<"kw">>, Len(seg))}
            \cup (IF depth > 0
                  THEN {TokenA("template-string", inner, <<>>, Len(seg)) :
                            inner \in tokenStreams(seg, depth - 1, empties)}
                  ELSE {})
        withEmpty ==
            IF empties > 0
            THEN {<<String(<<>>)>> \o rest : rest \in tokenStreams(text, depth, empties - 1)}
            ELSE {}
    IN  IF text = <<>> THEN {<<>>} \cup withEmpty
        ELSE withEmpty \cup
             UNION {{<<t>> \o rest :
                        t \in tokensOver(SubSeq(text, 1, k)),
                        rest \in tokenStreams(SubSeq(text, k + 1, Len(text)), depth, empties)} :
                    k \in 1..Len(text)}

Tokenizations(code) ==
    {ts \in tokenStreams(code, MaxDepth, MaxEmpty) : countEmpty(ts) <= MaxEmpty}

\* what the hook is run on: the texts of full length, tokenized without nesting
Codes == {t \in SourceTexts : Len(t) = MaxLen /\ CarriageReturn \notin {t[i] : i \in 1..Len(t)}}
HookTokenizations(code) == tokenStreams(code, 0, 0)

\* the ranges a diagnostic can have on `code`: start inside the text or at its
\* end, end after start and at most one past the text
Ranges(code) ==
    {r \in (0..Len(code)) \X (1..(Len(code) + 1)) : r[1] < r[2]}

\* the message of the n-th diagnostic
Message(n) == <<"M", ToString(n)>>

\* r after q in a sequence sorted by start and not crossing
Follows(q, r) ==
    /\ q[1] <= r[1]
    /\ ~(q[1] < r[1] /\ r[1] < q[2] /\ q[2] < r[2])

----------------------------------------------------------------------------
(* The range loop of the hook, one convertMarked application per step *)

ConvertInit ==
    /\ contentMustBeMarked = Undefined
    /\ contentParserOptions = "undefined"
    /\ pc = "loop"
    /\ messages = <<>>
    /\ \E code \in SourceTexts : \E ts \in Tokenizations(code) :
           /\ env = [code |-> code, tokens |-> ts]
                  /\ tokenized = ts
    /\ registered = [content |-> Undefined, used |-> FALSE, skipped |-> FALSE,
                    again |-> FALSE, fatal |-> FALSE]
    /\ applied = <<>>
    /\ made = <<>>
    /\ popped = <<>>

\* env.tokens = [...convertMarked({ tokens: env.tokens, range, message })]
ApplyRange(range, message) ==
    /\ pc = "loop"
    /\ Len(applied) < MaxRanges
    /\ \A i \in 1..Len(applied) : Follows(applied[i].range, range)
    /\ LET r == walk(env.tokens, range, message, 0)
       IN  /\ env' = [env EXCEPT !.tokens = r.out]
           /\ made' = r.made
           /\ popped' = r.popped
    /\ applied' = Append(applied, [range |-> range, message |-> message,
                                   before |-> env.tokens])
    /\ UNCHANGED <<contentMustBeMarked, contentParserOptions, pc, messages, tokenized,
                   registered>>

ConvertNext ==
    \E range \in Ranges(env.code) : ApplyRange(range, Message(Len(applied) + 1))

SpecConvert == ConvertInit /\ [][ConvertNext]_vars

----------------------------------------------------------------------------
(* The hook *)

\* the parser options of a container, by their sourceType
ParserOptions == {"script", "module"}

\* the line breaks of astUtils.createGlobalLinebreakMatcher
LineBreaks == {LineFeed, CarriageReturn}

RECURSIVE lineStarts(_, _)
\* the offsets that follow a line break of `code`, from offset i on;
\* a carriage return and the line feed after it are one break
lineStarts(code, i) ==
    IF i > Len(code) THEN <<>>
    ELSE IF code[i] = CarriageReturn /\ i < Len(code) /\ code[i + 1] = LineFeed
    THEN <<i + 1>> \o lineStarts(code, i + 2)
    ELSE IF code[i] \in LineBreaks
    THEN <<i>> \o lineStarts(code, i + 1)
    ELSE lineStarts(code, i + 1)

lineStartIndices(code) == <<0>> \o lineStarts(code, 1)

getIndexFromLoc(code, line, column) ==
    lineStartIndices(code)[line] + column - 1

\* what linter.verify can return for `code`: up to MaxMessages diagnostics in
\* the order of their locations; a fatal one has no end location
NoEnd == 0
Diagnostics(code) ==
    LET lines == 1..Len(lineStartIndices(code))
    IN  {[fatal |-> FALSE, line |-> l, column |-> c,
             endLine |-> IF ended THEN l ELSE NoEnd, endColumn |-> c + 1] :
            l \in lines, c \in 1..2, ended \in BOOLEAN}
        \cup {[fatal |-> TRUE, line |-> l, column |-> c, endLine |-> NoEnd, endColumn |-> NoEnd] :
                 l \in lines, c \in 1..2}

LinterResults(code) ==
    LET D == Diagnostics(code)
        ordered(ds) == \A i \in 1..(Len(ds) - 1) :
                          \/ ds[i].line < ds[i + 1].line
                          \/ ds[i].line = ds[i + 1].line /\ ds[i].column <= ds[i + 1].column
    IN  {ds \in UNION {[1..n -> D] : n \in 0..MaxMessages} : ordered(ds)}

\* messages.map(message => ({ message, range }))
messageRanges(code, ms) ==
    [i \in 1..Len(ms) |->
        LET start == getIndexFromLoc(code, ms[i].line, ms[i].column)
        IN  [message |-> Message(i),
             range |-> <<start,
                         IF ms[i].endLine = NoEnd THEN start + 1
                         ELSE getIndexFromLoc(code, ms[i].endLine, ms[i].endColumn)>>]]

RECURSIVE applyRanges(_, _)
\* for (const { range, message } of messageRanges) env.tokens = [...convertMarked(...)]
applyRanges(tokens, ranges) ==
    IF ranges = <<>> THEN tokens
    ELSE applyRanges(convertMarked(tokens, Head(ranges).range, Head(ranges).message, 0),
                     Tail(ranges))

\* someFatal with every in the place of some
someFatal_Every(ms) == \A i \in 1..Len(ms) : ms[i].fatal

\* messages.some(m => m.fatal)
someFatal(ms) == \E i \in 1..Len(ms) : ms[i].fatal

\* ignored that only looks whether anything is pending
ignored_NothingPending(pending, code) == pending = Undefined

\* contentMustBeMarked !== env.code
ignored(pending, code) == pending # code

\* cleared that leaves the pending content in place
cleared_Kept(pending) == pending

\* contentMustBeMarked = void 0, at the start of a run that is not ignored
cleared(pending) == Undefined

Init ==
    /\ contentMustBeMarked = Undefined
    /\ contentParserOptions = "undefined"
    /\ env = [code |-> <<>>, tokens |-> <<>>]
    /\ pc = "idle"
    /\ messages = <<>>
    /\ tokenized = <<>>
    /\ registered = [content |-> Undefined, used |-> FALSE, skipped |-> FALSE,
                    again |-> FALSE, fatal |-> FALSE]
    /\ applied = <<>>
    /\ made = <<>>
    /\ popped = <<>>

addContentMustBeMarked(content, options) ==
    /\ pc = "idle"
    /\ contentMustBeMarked' = content
    /\ contentParserOptions' = options
    /\ registered' = [content |-> content, used |-> FALSE, skipped |-> FALSE,
                    again |-> FALSE, fatal |-> FALSE]
    /\ UNCHANGED <<env, pc, messages, tokenized, applied, made, popped>>

\* Prism tokenizes `code` and is about to run its after-tokenize hooks
Tokenize(code) ==
    /\ pc = "idle"
    /\ \E ts \in HookTokenizations(code) :
          /\ env' = [code |-> code, tokens |-> ts]
    /\ pc' = "hook"
    /\ messages' = <<>>
    /\ UNCHANGED <<contentMustBeMarked, contentParserOptions, tokenized, registered,
                   applied, made, popped>>

\* the after-tokenize hook, from its first line to its return
AfterTokenize ==
    /\ pc = "hook"
    /\ pc' = "idle"
    /\ IF ignored(contentMustBeMarked, env.code)
       THEN /\ messages' = <<>>
            /\ UNCHANGED <<contentMustBeMarked, env>>
       ELSE /\ contentMustBeMarked' = cleared(contentMustBeMarked)
            /\ \E result \in LinterResults(env.code) :
                  /\ messages' = result
                  /\ env' = IF someFatal(result) THEN env
                            ELSE [env EXCEPT !.tokens =
                                     applyRanges(env.tokens, messageRanges(env.code, result))]
    /\ registered' = IF registered.content = env.code
                     THEN [registered EXCEPT
                             !.used = TRUE,
                             !.again = registered.used,
                             !.fatal = IF registered.used THEN @
                                       ELSE \E i \in 1..Len(messages') :
                                               messages'[i].fatal]
                     ELSE [registered EXCEPT !.skipped = TRUE]
    /\ UNCHANGED <<contentParserOptions, tokenized, applied, made, popped>>

Next ==
    \/ \E content \in Codes, options \in ParserOptions :
          addContentMustBeMarked(content, options)
    \/ \E code \in Codes : Tokenize(code)
    \/ AfterTokenize

Spec == Init /\ [][Next]_vars

----------------------------------------------------------------------------
(* Vocabulary of the properties *)

\* the last application: its range, its message and the tokens it was given
Last == applied[Len(applied)]

\* the text of a token sequence, eslint-message tokens counting as empty
Flatten(tokens) == joinContent(tokens)

\* sourceText[s:e]
SourceSlice(s, e) == slice(env.code, s, e)

RECURSIVE CountType(_, _)
\* how many tokens of `type` the tree holds, at any depth
CountType(tokens, type) ==
    IF tokens = <<>> THEN 0
    ELSE LET t == Head(tokens)
         IN  (IF ~t.str /\ t.type = type THEN 1 ELSE 0)
             + (IF ~t.flat THEN CountType(t.content, type) ELSE 0)
             + CountType(Tail(tokens), type)

\* an eslint-marked token that holds the eslint-message token of `message`
IsMarkedFor(t, message) ==
    /\ ~t.str /\ ~t.flat /\ t.type = "eslint-marked"
    /\ \E j \in 1..Len(t.content) :
          /\ ~t.content[j].str
          /\ t.content[j].type = "eslint-message"
          /\ t.content[j].text = message

RECURSIVE MarkedFor(_, _)
\* the eslint-marked tokens of `message` in the tree
MarkedFor(tokens, message) ==
    UNION {(IF IsMarkedFor(tokens[i], message) THEN {tokens[i]} ELSE {})
           \cup (IF ~tokens[i].flat THEN MarkedFor(tokens[i].content, message) ELSE {}) :
           i \in 1..Len(tokens)}

RECURSIVE Located(_, _)
\* for every eslint-marked token of `message` in the tree: the text before it,
\* its own text and the text after it, in document order
Located(tokens, message) ==
    UNION {LET t == tokens[i]
               pre == Flatten(SubSeq(tokens, 1, i - 1))
               post == Flatten(SubSeq(tokens, i + 1, Len(tokens)))
           IN  (IF IsMarkedFor(t, message)
                THEN {<<pre, getTokenContent(t), post>>} ELSE {})
               \cup (IF ~t.flat
                     THEN {<<pre \o x[1], x[2], x[3] \o post>> :
                              x \in Located(t.content, message)}
                     ELSE {}) :
           i \in 1..Len(tokens)}

RECURSIVE StripEmpty(_)
\* the tree without its empty strings
StripEmpty(tokens) ==
    IF tokens = <<>> THEN <<>>
    ELSE LET t == Head(tokens)
         IN  (IF t.str /\ t.text = <<>> THEN <<>>
              ELSE IF ~t.flat THEN <<[t EXCEPT !.content = StripEmpty(t.content)]>>
              ELSE <<t>>)
             \o StripEmpty(Tail(tokens))

HasLineFeedAlias(t) ==
    \E j \in 1..Len(t.alias) : t.alias[j] = "eslint-marked-line-feed"

----------------------------------------------------------------------------
(* Claims *)

\* the tokenizer's stream holds no empty string (the walk then never ends
\* early, see C9)
NoEmptyString == countEmpty(tokenized) = 0

\* C1 (Reconstitution): after every application of a sorted, non-crossing
\* sequence of ranges, the text of env.tokens (eslint-message tokens counting
\* as empty) is the source text.  Stated for streams of strings, string-content
\* tokens and nested tokens without empty strings.
C1_Reconstitution ==
    NoEmptyString => Flatten(env.tokens) = env.code

\* C2 (Single wrapper per range): one application for a range that overlaps
\* the tree adds exactly one eslint-marked token and exactly one
\* eslint-message token.  Stated for streams without empty strings.
C2_SingleWrapper ==
    (NoEmptyString /\ applied # <<>> /\ Last.range[1] < Len(Flatten(Last.before)))
    => /\ CountType(env.tokens, "eslint-marked")
            = CountType(Last.before, "eslint-marked") + 1
       /\ CountType(env.tokens, "eslint-message")
            = CountType(Last.before, "eslint-message") + 1

\* C3 (Boundary exactness): for a range [s, e) within the text there is one
\* eslint-marked token of the range; its text is sourceText[s:e], the text
\* before it is sourceText[0:s] and the text after it is sourceText[e:].
\* Stated for the first range applied to a stream without empty strings.
C3_BoundaryExactness ==
    (NoEmptyString /\ Len(applied) = 1 /\ Last.range[2] <= Len(env.code))
    => Located(env.tokens, Last.message)
         = {<<SourceSlice(0, Last.range[1]),
              SourceSlice(Last.range[1], Last.range[2]),
              SourceSlice(Last.range[2], Len(env.code))>>}

\* C4 (No-op on out-of-bounds): a range that starts at or beyond the text of
\* the tree (or any range on an empty tree) leaves the tokens as they were
\* and builds no eslint-marked or eslint-message token.
C4_NoOpOutOfBounds ==
    (applied # <<>> /\ Last.range[1] >= Len(Flatten(Last.before)))
    => /\ env.tokens = Last.before
       /\ made = <<>>

\* C5 as stated (Line-break tagging): an eslint-marked token built for a
\* range has the alias eslint-marked-line-feed exactly when the range has
\* length 1 and the wrapped character is a line-break character.
C5_LineBreakTagging ==
    applied # <<>>
    => \A i \in 1..Len(made) :
          HasLineFeedAlias(made[i])
          <=> /\ Last.range[2] = Last.range[1] + 1
              /\ \E c \in LineBreaks : getTokenContent(made[i]) = <<c>>

\* C5 as amended: an eslint-marked token built for a range has the alias
\* eslint-marked-line-feed exactly when the range has length 1 and the
\* wrapped character is the line feed; any other character, a carriage return
\* included, and any longer range get no such alias.
C5_LineFeedTagging ==
    applied # <<>>
    => \A i \in 1..Len(made) :
          HasLineFeedAlias(made[i])
          <=> /\ Last.range[2] = Last.range[1] + 1
              /\ getTokenContent(made[i]) = <<LineFeed>>

\* C5 witness: a range of length 1 over a line feed has been applied and the
\* eslint-marked token built for it has the alias.
C5_Witness ==
    /\ applied # <<>>
    /\ Last.range[2] = Last.range[1] + 1
    /\ Len(made) = 1
    /\ getTokenContent(made[1]) = <<LineFeed>>
    /\ HasLineFeedAlias(made[1])

\* C6 (Adjacent ranges stay separate): after r1 then r2 with r1.end = r2.start,
\* both within the text, the tree holds one eslint-marked token of r1 with the
\* text sourceText[r1], the one the first application built, and one
\* eslint-marked token of r2 with the text sourceText[r2].  Stated for
\* streams without empty strings.
C6_AdjacentSeparate ==
    (/\ NoEmptyString
     /\ Len(applied) = 2
     /\ applied[1].range[2] = applied[2].range[1]
     /\ applied[2].range[2] <= Len(env.code))
    => LET r1 == applied[1].range
           r2 == applied[2].range
           first == MarkedFor(applied[2].before, applied[1].message)
           final1 == MarkedFor(env.tokens, applied[1].message)
           final2 == MarkedFor(env.tokens, applied[2].message)
       IN  /\ final1 = first
           /\ Cardinality(final1) = 1
           /\ \A w \in final1 : getTokenContent(w) = SourceSlice(r1[1], r1[2])
           /\ Cardinality(final2) = 1
           /\ \A w \in final2 : getTokenContent(w) = SourceSlice(r2[1], r2[2])

\* C9 (Empty-node pass-through): empty strings in the tokens are emitted, and
\* the rest of the result is what the same tokens without the empty strings
\* give.
C9_EmptyPassThrough ==
    applied # <<>>
    => /\ countEmpty(env.tokens) = countEmpty(Last.before)
       /\ StripEmpty(env.tokens)
            = convertMarked(StripEmpty(Last.before), Last.range, Last.message, 0)

\* C10 (Merge pops only the duplicate message): every element removed by
\* result.marked.content.pop() is the eslint-message token of the current
\* range.  Stated for streams without empty strings.
C10_PopsOnlyMessage ==
    (NoEmptyString /\ applied # <<>>)
    => \A i \in 1..Len(popped) :
          /\ ~popped[i].str
          /\ popped[i].type = "eslint-message"
          /\ popped[i].text = Last.message

\* messages.some(m => m.fatal), said of the linter's result
AnyFatal(ms) == {i \in 1..Len(ms) : ms[i].fatal} # {}

\* C7 (Fatal diagnostics never reach the splitter): a run of the hook whose
\* linter result holds a fatal diagnostic leaves env, and so env.tokens, as
\* it was.
C7_FatalAppliesNothing ==
    [][(pc = "hook" /\ AnyFatal(messages')) => env' = env]_vars

\* C7 witness: the hook has run on the registered content and the linter
\* returned a fatal diagnostic together with one that is not fatal; no token
\* was marked.
C7_Witness ==
    /\ pc = "idle"
    /\ registered.used
    /\ AnyFatal(messages)
    /\ \E i \in 1..Len(messages) : ~messages[i].fatal
    /\ CountType(env.tokens, "eslint-marked") = 0

\* C8 (Hook gating): a run of the hook changes env or the pending content
\* only if env.code is the content of the last addContentMustBeMarked call
\* and no run has used that call yet.
C8_HookGating ==
    [][(pc = "hook" /\ ~(registered.content = env.code /\ ~registered.used))
        => /\ env' = env
           /\ contentMustBeMarked' = contentMustBeMarked
           /\ contentParserOptions' = contentParserOptions]_vars

\* C8 witness: content is registered, the hook has run on another code and
\* left the content pending and the tokens unmarked.
C8_Witness ==
    /\ pc = "idle"
    /\ registered.skipped
    /\ ~registered.used
    /\ contentMustBeMarked = registered.content
    /\ contentMustBeMarked # Undefined
    /\ env.code # contentMustBeMarked
    /\ CountType(env.tokens, "eslint-marked") = 0

RECURSIVE Placed(_, _)
\* the strings and string-content tokens of the tree, each with the offset
\* its text starts at
Placed(tokens, start) ==
    IF tokens = <<>> THEN {}
    ELSE LET t == Head(tokens)
         IN  (IF t.flat THEN {[token |-> t, start |-> start]}
              ELSE Placed(t.content, start))
             \cup Placed(Tail(tokens), start + Len(getTokenContent(t)))

\* C11 (After-fragment is kept): splitToken, given a string or a
\* string-content token of the tree that a next range overlaps and whose text
\* extends past the range's end, returns an after fragment of the same kind
\* holding the text from the range's end to the token's end.  Stated for
\* streams without empty strings.
C11_AfterFragmentKept ==
    NoEmptyString
    => \A p \in Placed(env.tokens, 0) : \A r \in Ranges(env.code) :
          LET content == getTokenContent(p.token)
              res == splitToken(p.token, r, Message(Len(applied) + 1), p.start)
          IN  (/\ \A i \in 1..Len(applied) : Follows(applied[i].range, r)
               /\ p.start < r[2]
               /\ r[1] < p.start + Len(content)
               /\ r[2] < p.start + Len(content))
              => /\ res.after # Null
                 /\ res.after.str = p.token.str
                 /\ res.after.type = p.token.type
                 /\ res.after.flat
                 /\ res.after.text = slice(content, r[2] - p.start, Len(content))

\* the offset at which the text of tokens[i] starts, the sequence starting at 0
OffsetOf(tokens, i) == Len(Flatten(SubSeq(tokens, 1, i - 1)))

\* C12 (Half-open tie-break): in the last application, a node with text that
\* ends exactly at range.start is emitted unchanged at its place, outside the
\* wrapper, and a node with text that starts exactly at range.end is emitted
\* unchanged, with everything after it, behind the wrapper.
C12_HalfOpenTieBreak ==
    applied # <<>>
    => LET in == Last.before
           out == env.tokens
           r == Last.range
       IN  \A i \in 1..Len(in) :
              getTokenContent(in[i]) # <<>>
              => /\ OffsetOf(in, i + 1) = r[1]
                    => /\ Len(out) >= i
                       /\ SubSeq(out, 1, i) = SubSeq(in, 1, i)
                 /\ OffsetOf(in, i) = r[2]
                    => /\ Len(out) >= Len(in) - i + 1
                       /\ SubSeq(out, Len(out) - (Len(in) - i), Len(out))
                            = SubSeq(in, i, Len(in))

RECURSIVE MessageCount(_, _)
\* how many eslint-message tokens with the content `message` the tree holds
MessageCount(tokens, message) ==
    IF tokens = <<>> THEN 0
    ELSE LET t == Head(tokens)
         IN  (IF ~t.str /\ t.flat /\ t.type = "eslint-message" /\ t.text = message
              THEN 1 ELSE 0)
             + (IF ~t.flat THEN MessageCount(t.content, message) ELSE 0)
             + MessageCount(Tail(tokens), message)

\* C13 (Message preservation): after every application of a sorted,
\* non-crossing sequence of ranges, the tree holds, for every applied range
\* that overlapped the text, an eslint-message token with that range's
\* message as content.  Stated for streams without empty strings.
C13_MessagePreserved ==
    NoEmptyString
    => \A i \in 1..Len(applied) :
          applied[i].range[1] < Len(Flatten(applied[i].before))
          => MessageCount(env.tokens, applied[i].message) >= 1

\* C14 (One-shot consumption): a run of the hook on the content of the last
\* addContentMustBeMarked call leaves nothing pending, whatever the linter
\* reports (a fatal diagnostic included), and once that content was used by a
\* run, a later run leaves env alone until addContentMustBeMarked is called
\* again.
C14_OneShotConsumption ==
    [][pc = "hook"
       => /\ (registered.content = env.code /\ ~registered.used)
             => contentMustBeMarked' = Undefined
          /\ registered.used
             => /\ env' = env
                /\ contentMustBeMarked' = Undefined]_vars

\* C14 witness: the content was registered once, a run of the hook used it
\* and got a fatal diagnostic, and a later tokenize of the same code went
\* through the hook and is left unmarked, with nothing pending
C14_Witness ==
    /\ pc = "idle"
    /\ registered.used
    /\ registered.fatal
    /\ registered.again
    /\ env.code = registered.content
    /\ contentMustBeMarked = Undefined
    /\ env.tokens \in HookTokenizations(env.code)

====
